---- MODULE Spec2Model ----
(***************************************************************************)
(* alx-polly: polls, poll options and votes kept in three storage tables,  *)
(* mutated by API route handlers (app/api/polls/...) and by the server     *)
(* actions of lib/actions.ts.  Every storage call of a handler is one      *)
(* step; requests of different callers interleave between storage calls.   *)
(***************************************************************************)
EXTENDS Integers, Sequences, FiniteSets, TLC

\* ------------------------------------------------------------------ bounds
MaxRequests == 2
MaxPolls == 3

\* ------------------------------------------------- validation constants
MinTitleLen == 5
MaxTitleLen == 200
MaxDescLen == 1000
MinOptionLen == 1
MaxOptionLen == 100
MinOptions == 2
MaxOptions == 10

\* ------------------------------------------------------------ identities
Users == {"u1", "u2"}
NoUser == "anon"
Procs == {"p1", "p2"}

\* ------------------------------------------------------------------ text
\* A string is a sequence of one-character strings.
RECURSIVE TrimStart(_)
TrimStart(s) == IF s # <<>> /\ Head(s) = " " THEN TrimStart(Tail(s)) ELSE s

RECURSIVE TrimEnd(_)
TrimEnd(s) ==
    IF s # <<>> /\ s[Len(s)] = " " THEN TrimEnd(SubSeq(s, 1, Len(s) - 1)) ELSE s

Trim(s) == TrimEnd(TrimStart(s))

LowerChar(c) == IF c = "A" THEN "a" ELSE IF c = "B" THEN "b" ELSE c

ToLowerCase(s) == [i \in 1..Len(s) |-> LowerChar(s[i])]

\* option.text.trim().toLowerCase()
NormalizedText(s) == ToLowerCase(Trim(s))

\* An optional string is <<>> (undefined) or <<s>>.
None == <<>>
Some(s) == <<s>>

\* ---------------------------------------------------------------- inputs
TitleGood == <<"x", "x", "x", "x", "x">>
TitlePadded == <<" ", "y", "y", "y", "y", "y">>
TitleShort == <<"x", "x", "x", "x">>

Opt(id, text) == [id |-> id, text |-> text]

OptsClean == <<Opt(0, <<"a">>), Opt(0, <<"b">>)>>
OptsPadded == <<Opt(1, <<" ", "b">>), Opt(0, <<"a", " ">>)>>
OptsDup == <<Opt(0, <<"a">>), Opt(0, <<"A">>)>>
OptsBlank == <<Opt(0, <<"a">>), Opt(0, <<" ">>)>>

Payload(title, description, options, json) ==
    [title |-> title, description |-> description, options |-> options, json |-> json]

NoPayload == Payload(<<>>, None, <<>>, "ok")

\* What a create form submits: title, description, one "options" entry per option.
CreatePayloads ==
    { Payload(TitleGood, None, OptsClean, "ok"),
      Payload(TitlePadded, Some(<<"d">>), OptsPadded, "ok"),
      Payload(TitleGood, None, OptsDup, "ok"),
      Payload(TitleShort, None, OptsClean, "ok"),
      Payload(TitleGood, None, OptsBlank, "ok") }

\* What an edit form submits: the options travel as one JSON string, which may
\* fail to parse.
UpdatePayloads == CreatePayloads \cup { Payload(TitleGood, None, <<>>, "bad") }

\* ------------------------------------------------------------ validation
Texts(opts) == [i \in DOMAIN opts |-> opts[i].text]

TrimmedOptions(opts) == [i \in DOMAIN opts |-> Opt(opts[i].id, Trim(opts[i].text))]

\* the .refine of both schemas: new Set(texts).size === texts.length
AllUnique(opts) ==
    Cardinality({ToLowerCase(opts[i].text) : i \in DOMAIN opts}) = Len(opts)

\* .transform(val => val?.trim() || undefined)
TrimmedDescription(d) == IF d = None \/ Trim(d[1]) = <<>> THEN None ELSE Some(Trim(d[1]))

NoData == [title |-> <<>>, description |-> None, options |-> <<>>]

\* lib/utils/validation.ts: pollFormSchema / updatePollSchema.  The length checks
\* run on the raw string, .trim() runs after them.
ValidationSchema(raw) ==
    LET titleErr == Len(raw.title) < MinTitleLen \/ Len(raw.title) > MaxTitleLen
        descErr == raw.description # None /\ Len(raw.description[1]) > MaxDescLen
        itemErr == \E i \in DOMAIN raw.options :
                       \/ Len(raw.options[i].text) < MinOptionLen
                       \/ Len(raw.options[i].text) > MaxOptionLen
        trimmed == TrimmedOptions(raw.options)
        arrErr == \/ Len(trimmed) < MinOptions
                  \/ Len(trimmed) > MaxOptions
                  \/ ~AllUnique(trimmed)
        errors == (IF titleErr THEN {"title"} ELSE {})
                  \cup (IF descErr THEN {"description"} ELSE {})
                  \cup (IF itemErr \/ arrErr THEN {"options"} ELSE {})
    IN  [success |-> errors = {},
         errors |-> errors,
         data |-> IF errors = {}
                  THEN [title |-> Trim(raw.title),
                        description |-> TrimmedDescription(raw.description),
                        options |-> trimmed]
                  ELSE NoData]

\* the schema without .trim() on the option texts
validateCreatePollData_NoTrim(raw) ==
    [ValidationSchema(raw) EXCEPT !.data.options = raw.options]

validateCreatePollData(raw) == ValidationSchema(raw)

\* JSON.parse of the options field happens before safeParse and may throw.
validateUpdatePollData(raw) ==
    IF raw.json = "bad"
    THEN [success |-> FALSE, errors |-> {}, data |-> NoData, threw |-> TRUE]
    ELSE [success |-> ValidationSchema(raw).success,
          errors |-> ValidationSchema(raw).errors,
          data |-> ValidationSchema(raw).data,
          threw |-> FALSE]

\* lib/actions.ts: pollFormSchema / updatePollSchema of the server actions: no
\* trimming, no upper limits, no uniqueness check.
ActionSchema(raw) ==
    LET titleErr == Len(raw.title) < MinTitleLen
        itemErr == \E i \in DOMAIN raw.options : Len(raw.options[i].text) < MinOptionLen
        arrErr == Len(raw.options) < MinOptions
        errors == (IF titleErr THEN {"title"} ELSE {})
                  \cup (IF itemErr \/ arrErr THEN {"options"} ELSE {})
    IN  [success |-> errors = {},
         errors |-> errors,
         data |-> IF errors = {}
                  THEN [title |-> raw.title,
                        description |-> raw.description,
                        options |-> raw.options]
                  ELSE NoData]

\* options.filter(option => option.text && option.text.trim() !== "")
CleanOptions(opts) == SelectSeq(opts, LAMBDA o : Trim(o.text) # <<>>)

\* --------------------------------------------------------------- storage
VARIABLES
    polls,         \* table polls: id -> [title, description, created_by]
    poll_options,  \* table poll_options: rows [id, poll_id, text]
    votes,         \* table votes: rows [id, poll_id, option_id, user_id]
    nextId,        \* the ids storage hands out next, per table
    req,           \* per request slot: the request being handled, or its response
    started        \* requests received so far

vars == <<polls, poll_options, votes, nextId, req, started>>

PollRow(title, description, owner) ==
    [title |-> title, description |-> description, created_by |-> owner]

OptionRow(id, pid, text) == [id |-> id, poll_id |-> pid, text |-> text]

VoteRow(id, pid, oid, uid) == [id |-> id, poll_id |-> pid, option_id |-> oid, user_id |-> uid]

PollExists(ps, pid) == pid \in DOMAIN ps

\* from("polls").insert([{title, description, created_by}])
InsertPollRow(ps, id, row) ==
    [x \in DOMAIN ps \cup {id} |-> IF x = id THEN row ELSE ps[x]]

\* an update that also clears the row's created_by
UpdatePollRow_ClearsOwner(ps, pid, title, description) ==
    [x \in DOMAIN ps |->
        IF x = pid
        THEN [ps[x] EXCEPT !.title = title, !.description = description,
                           !.created_by = NoUser]
        ELSE ps[x]]

\* from("polls").update({title, description}).eq("id", pollId)
UpdatePollRow(ps, pid, title, description) ==
    [x \in DOMAIN ps |->
        IF x = pid THEN [ps[x] EXCEPT !.title = title, !.description = description]
        ELSE ps[x]]

\* a delete with the filter negated: every other row goes
DeletePollRow_Neq(ps, pid) == [x \in DOMAIN ps \cap {pid} |-> ps[x]]

\* a delete whose filter matches no row
DeletePollRow_NoMatch(ps, pid) == ps

\* from("polls").delete().eq("id", pollId)
DeletePollRow(ps, pid) == [x \in DOMAIN ps \ {pid} |-> ps[x]]

\* the rows of a table that reference a poll, and the table without them
\* (ON DELETE CASCADE of poll_options.poll_id and votes.poll_id)
RowsOfPoll(rows, pid) == {r \in rows : r.poll_id = pid}

CascadeDelete(rows, pid) == rows \ RowsOfPoll(rows, pid)

\* an insert that files the rows under the next poll id
InsertOptionRows_OtherPoll(rows, pid, texts, first) ==
    rows \cup {OptionRow(first + i - 1, pid + 1, texts[i]) : i \in DOMAIN texts}

\* from("poll_options").insert(options.map(o => ({text: o.text, poll_id})))
InsertOptionRows(rows, pid, texts, first) ==
    rows \cup {OptionRow(first + i - 1, pid, texts[i]) : i \in DOMAIN texts}

\* from("poll_options").delete().eq("poll_id", pollId)
DeleteOptionsOfPoll(rows, pid) == {r \in rows : r.poll_id # pid}

\* from("poll_options").delete().in("id", ids) / .eq("id", id)
DeleteOptionIds(rows, ids) == {r \in rows : r.id \notin ids}

\* A select without ORDER BY returns the rows in any order.
Orderings(S) ==
    {f \in [1..Cardinality(S) -> S] : \A i, j \in 1..Cardinality(S) : f[i] = f[j] => i = j}

\* ------------------------------------------------------------- requests
NoSnap == [title |-> <<>>, description |-> None, options |-> {}]

Idle ==
    [op |-> "none", user |-> NoUser, poll |-> 0, option |-> 0, payload |-> NoPayload,
     pc |-> "idle", calls |-> <<>>, res |-> "none", errs |-> {}, rid |-> 0,
     count |-> 0,
     data |-> NoData, ids |-> <<>>, owner0 |-> "none", pre |-> {}, snap |-> NoSnap]

\* A request as received: owner0 and pre record the owner and the option ids of
\* the target poll at that moment.
NewRequest(op, user, pid, oid, payload) ==
    [Idle EXCEPT !.op = op, !.user = user, !.poll = pid, !.option = oid,
                 !.payload = payload,
                 !.owner0 = IF PollExists(polls, pid) THEN polls[pid].created_by ELSE "none",
                 !.pre = {o.id : o \in RowsOfPoll(poll_options, pid)}]

Call(name, ok) == [name |-> name, ok |-> ok]

Called(r, name, ok) == [r EXCEPT !.calls = Append(@, Call(name, ok))]

Goto(r, pc) == [r EXCEPT !.pc = pc]

\* the response envelope
Respond(r, kind) == [r EXCEPT !.pc = "done", !.res = kind]

\* No response is waiting to be sent: a finished request's envelope goes out
\* before any handler takes its next step.
Quiet == \A q \in Procs : req[q].pc # "done"

\* A request takes the first idle slot.
CanStart(p) ==
    /\ started < MaxRequests
    /\ Quiet
    /\ req[p].pc = "idle"
    /\ \A q \in Procs \ {p} : req[q].pc # "idle" \/ p = "p1"

Start(p, r) ==
    /\ CanStart(p)
    /\ req' = [req EXCEPT ![p] = r]
    /\ started' = started + 1
    /\ UNCHANGED <<polls, poll_options, votes, nextId>>

Step(p, r) == req' = [req EXCEPT ![p] = r]

At(p, op, pc) == Quiet /\ req[p].op = op /\ req[p].pc = pc

\* ----------------------------------------------------------------- auth
\* lib/utils/auth.ts requireAuth: without a user it calls redirect("/login"),
\* which throws NEXT_REDIRECT.
Authenticated(user) == user # NoUser

\* lib/utils/errors.ts withErrorHandling: whatever the operation throws, the
\* redirect included, becomes the UNKNOWN envelope.
withErrorHandling(thrown) == "UNKNOWN"

\* an ownership check that only looks for the poll
verifyPollOwnership_AnyCaller(ps, pid, user, ok) == ok /\ PollExists(ps, pid)

\* lib/utils/auth.ts verifyPollOwnership: a failed read counts as "not the owner".
verifyPollOwnership(ps, pid, user, ok) ==
    ok /\ PollExists(ps, pid) /\ ps[pid].created_by = user

\* ------------------------------------------------------------------ init
InitClean ==
    /\ polls = (1 :> PollRow(TitleGood, None, "u1"))
    /\ poll_options = {OptionRow(1, 1, <<"a">>), OptionRow(2, 1, <<"b">>)}
    /\ nextId = [poll |-> 2, option |-> 3, vote |-> 1]

\* as the createPoll server action stores a submission with two equal options
InitDup ==
    /\ polls = (1 :> PollRow(TitleGood, None, "u1"))
    /\ poll_options = {OptionRow(1, 1, <<"a">>), OptionRow(2, 1, <<"A">>)}
    /\ nextId = [poll |-> 2, option |-> 3, vote |-> 1]

Init ==
    /\ InitClean \/ InitDup
    /\ votes = {}
    /\ req = [p \in Procs |-> Idle]
    /\ started = 0

PollIds == 1..MaxPolls

\* ------------------------------------------- POST /api/polls (create route)
RouteCreate(p) ==
    \E user \in Users \cup {NoUser}, payload \in CreatePayloads :
        LET r == NewRequest("POST_polls", user, 0, 0, payload)
            v == validateCreatePollData(payload)
        IN  Start(p,
                IF ~Authenticated(user) THEN Respond(r, withErrorHandling("NEXT_REDIRECT"))
                ELSE IF ~v.success THEN [Respond(r, "VALIDATION") EXCEPT !.errs = v.errors]
                ELSE [Goto(r, "createPoll") EXCEPT !.data = v.data])

\* PollDatabase.createPoll, first call of createPollWithOptions
RouteCreate_createPoll(p) ==
    /\ At(p, "POST_polls", "createPoll")
    /\ nextId.poll <= MaxPolls
    /\ \E ok \in BOOLEAN :
        LET r == Called(req[p], "createPoll", ok)
            id == nextId.poll
        IN  IF ok
            THEN /\ polls' = InsertPollRow(polls, id,
                                PollRow(r.data.title, r.data.description, r.user))
                 /\ nextId' = [nextId EXCEPT !.poll = id + 1]
                 /\ Step(p, [Goto(r, "createPollOptions") EXCEPT !.poll = id])
            ELSE /\ Step(p, Respond(r, "DATABASE"))
                 /\ UNCHANGED <<polls, nextId>>
    /\ UNCHANGED <<poll_options, votes, started>>

\* PollDatabase.createPollOptions inside createPollWithOptions' try block; the
\* insert is refused when the poll row is gone (poll_options.poll_id references polls)
RouteCreate_createPollOptions(p) ==
    /\ At(p, "POST_polls", "createPollOptions")
    /\ \E ok \in BOOLEAN :
        LET done == ok /\ PollExists(polls, req[p].poll)
            r == [Called(req[p], "createPollOptions", done)
                     EXCEPT !.pre = {o.id : o \in RowsOfPoll(poll_options, req[p].poll)}]
        IN  IF done
            THEN /\ poll_options' = InsertOptionRows(poll_options, r.poll,
                                        Texts(r.data.options), nextId.option)
                 /\ nextId' = [nextId EXCEPT !.option = @ + Len(r.data.options)]
                 /\ Step(p, [Respond(r, "SUCCESS") EXCEPT !.rid = r.poll])
            ELSE /\ Step(p, Goto(r, "rollback"))
                 /\ UNCHANGED <<poll_options, nextId>>
    /\ UNCHANGED <<polls, votes, started>>

\* the catch block of createPollWithOptions: deletePoll(poll.id).catch(log), then
\* the insert's error is thrown on and the route answers createDatabaseError
RouteCreate_rollback(p) ==
    /\ At(p, "POST_polls", "rollback")
    /\ \E ok \in BOOLEAN :
        LET r == Called(req[p], "deletePoll", ok)
        IN  /\ Step(p, Respond(r, "DATABASE"))
            /\ IF ok
               THEN /\ polls' = DeletePollRow(polls, r.poll)
                    /\ poll_options' = CascadeDelete(poll_options, r.poll)
                    /\ votes' = CascadeDelete(votes, r.poll)
               ELSE UNCHANGED <<polls, poll_options, votes>>
    /\ UNCHANGED <<nextId, started>>

\* ------------------------------------- lib/actions.ts createPoll (server action)
\* Without a user the action returns redirect("/login"): nothing catches it.
ActionCreate(p) ==
    \E user \in Users \cup {NoUser}, payload \in CreatePayloads :
        LET r == NewRequest("createPoll", user, 0, 0, payload)
            v == ActionSchema(payload)
        IN  Start(p,
                IF ~Authenticated(user) THEN Respond(r, "AUTH_REQUIRED")
                ELSE IF ~v.success THEN [Respond(r, "VALIDATION") EXCEPT !.errs = v.errors]
                ELSE [Goto(r, "insertPoll") EXCEPT !.data = v.data])

ActionCreate_insertPoll(p) ==
    /\ At(p, "createPoll", "insertPoll")
    /\ nextId.poll <= MaxPolls
    /\ \E ok \in BOOLEAN :
        LET r == Called(req[p], "createPoll", ok)
            id == nextId.poll
        IN  IF ok
            THEN /\ polls' = InsertPollRow(polls, id,
                                PollRow(r.data.title, r.data.description, r.user))
                 /\ nextId' = [nextId EXCEPT !.poll = id + 1]
                 /\ Step(p, [Goto(r, "insertOptions") EXCEPT !.poll = id])
            ELSE /\ Step(p, Respond(r, "DATABASE"))
                 /\ UNCHANGED <<polls, nextId>>
    /\ UNCHANGED <<poll_options, votes, started>>

ActionCreate_insertOptions(p) ==
    /\ At(p, "createPoll", "insertOptions")
    /\ \E ok \in BOOLEAN :
        LET done == ok /\ PollExists(polls, req[p].poll)
            r == [Called(req[p], "createPollOptions", done)
                     EXCEPT !.pre = {o.id : o \in RowsOfPoll(poll_options, req[p].poll)}]
        IN  IF done
            THEN /\ poll_options' = InsertOptionRows(poll_options, r.poll,
                                        Texts(r.data.options), nextId.option)
                 /\ nextId' = [nextId EXCEPT !.option = @ + Len(r.data.options)]
                 /\ Step(p, [Respond(r, "SUCCESS") EXCEPT !.rid = r.poll])
            ELSE /\ Step(p, Goto(r, "deletePoll"))
                 /\ UNCHANGED <<poll_options, nextId>>
    /\ UNCHANGED <<polls, votes, started>>

\* await supabase.from("polls").delete().match({id: poll.id}): the outcome is not
\* looked at
ActionCreate_deletePoll(p) ==
    /\ At(p, "createPoll", "deletePoll")
    /\ \E ok \in BOOLEAN :
        LET r == Called(req[p], "deletePoll", ok)
        IN  /\ Step(p, Respond(r, "DATABASE"))
            /\ IF ok
               THEN /\ polls' = DeletePollRow(polls, r.poll)
                    /\ poll_options' = CascadeDelete(poll_options, r.poll)
                    /\ votes' = CascadeDelete(votes, r.poll)
               ELSE UNCHANGED <<polls, poll_options, votes>>
    /\ UNCHANGED <<nextId, started>>

\* --------------------------------- shared by the [id] routes: load and ownership
\* PollDatabase.getPollById: .single() with an error (no row, or a failed read)
\* gives null, which the routes answer with createNotFoundError
Route_getPollById(p, op) ==
    /\ At(p, op, "getPollById")
    /\ \E ok \in BOOLEAN :
        LET found == ok /\ PollExists(polls, req[p].poll)
            r == Called(req[p], "getPollById", found)
        IN  Step(p, IF found THEN Goto(r, "requirePollOwnership")
                    ELSE Respond(r, "NOT_FOUND"))
    /\ UNCHANGED <<polls, poll_options, votes, nextId, started>>

\* The poll with its options as stored now.
Snapshot(pid) ==
    IF PollExists(polls, pid)
    THEN [title |-> polls[pid].title, description |-> polls[pid].description,
          options |-> RowsOfPoll(poll_options, pid)]
    ELSE NoSnap

\* ------------------------------------------ PUT /api/polls/[id] (update route)
RouteUpdate(p) ==
    \E user \in Users \cup {NoUser}, pid \in PollIds, payload \in UpdatePayloads :
        LET r == NewRequest("PUT_poll", user, pid, 0, payload)
            v == validateUpdatePollData(payload)
        IN  Start(p,
                IF ~Authenticated(user) THEN Respond(r, withErrorHandling("NEXT_REDIRECT"))
                ELSE IF v.threw THEN Respond(r, withErrorHandling("SyntaxError"))
                ELSE IF ~v.success THEN [Respond(r, "VALIDATION") EXCEPT !.errs = v.errors]
                ELSE [Goto(r, "getPollById") EXCEPT !.data = v.data])

RouteUpdate_getPollById(p) == Route_getPollById(p, "PUT_poll")

\* requirePollOwnership, then the cleanOptions filter and its length check
RouteUpdate_requirePollOwnership(p) ==
    /\ At(p, "PUT_poll", "requirePollOwnership")
    /\ \E ok \in BOOLEAN :
        LET owner == verifyPollOwnership(polls, req[p].poll, req[p].user, ok)
            r == Called(req[p], "verifyPollOwnership", owner)
            clean == CleanOptions(r.data.options)
        IN  Step(p, IF ~owner THEN Respond(r, "PERMISSION")
                    ELSE IF Len(clean) < MinOptions
                         THEN [Respond(r, "VALIDATION") EXCEPT !.errs = {"options"}]
                    ELSE [Goto(r, "updatePoll") EXCEPT !.data.options = clean,
                                                       !.snap = Snapshot(r.poll)])
    /\ UNCHANGED <<polls, poll_options, votes, nextId, started>>

\* updatePollWithOptions, first call: PollDatabase.updatePoll
RouteUpdate_updatePoll(p) ==
    /\ At(p, "PUT_poll", "updatePoll")
    /\ \E ok \in BOOLEAN :
        LET r == Called(req[p], "updatePoll", ok)
        IN  IF ok
            THEN /\ polls' = UpdatePollRow(polls, r.poll, r.data.title, r.data.description)
                 /\ Step(p, Goto(r, "deletePollOptions"))
            ELSE /\ Step(p, Respond(r, "DATABASE"))
                 /\ UNCHANGED polls
    /\ UNCHANGED <<poll_options, votes, nextId, started>>

\* updatePollWithOptions, second call: PollDatabase.deletePollOptions
RouteUpdate_deletePollOptions(p) ==
    /\ At(p, "PUT_poll", "deletePollOptions")
    /\ \E ok \in BOOLEAN :
        LET r == Called(req[p], "deletePollOptions", ok)
        IN  IF ok
            THEN /\ poll_options' = DeleteOptionsOfPoll(poll_options, r.poll)
                 /\ Step(p, Goto(r, "createPollOptions"))
            ELSE /\ Step(p, Respond(r, "DATABASE"))
                 /\ UNCHANGED poll_options
    /\ UNCHANGED <<polls, votes, nextId, started>>

\* updatePollWithOptions, third call: PollDatabase.createPollOptions
RouteUpdate_createPollOptions(p) ==
    /\ At(p, "PUT_poll", "createPollOptions")
    /\ \E ok \in BOOLEAN :
        LET done == ok /\ PollExists(polls, req[p].poll)
            r == Called(req[p], "createPollOptions", done)
        IN  IF done
            THEN /\ poll_options' = InsertOptionRows(poll_options, r.poll,
                                        Texts(r.data.options), nextId.option)
                 /\ nextId' = [nextId EXCEPT !.option = @ + Len(r.data.options)]
                 /\ Step(p, Respond(r, "SUCCESS"))
            ELSE /\ Step(p, Respond(r, "DATABASE"))
                 /\ UNCHANGED <<poll_options, nextId>>
    /\ UNCHANGED <<polls, votes, started>>

\* --------------------------------------- DELETE /api/polls/[id] (delete route)
RouteDelete(p) ==
    \E user \in Users \cup {NoUser}, pid \in PollIds :
        LET r == NewRequest("DELETE_poll", user, pid, 0, NoPayload)
        IN  Start(p,
                IF ~Authenticated(user) THEN Respond(r, withErrorHandling("NEXT_REDIRECT"))
                ELSE Goto(r, "getPollById"))

RouteDelete_getPollById(p) == Route_getPollById(p, "DELETE_poll")

RouteDelete_requirePollOwnership(p) ==
    /\ At(p, "DELETE_poll", "requirePollOwnership")
    /\ \E ok \in BOOLEAN :
        LET owner == verifyPollOwnership(polls, req[p].poll, req[p].user, ok)
            r == Called(req[p], "verifyPollOwnership", owner)
        IN  Step(p, IF ~owner THEN Respond(r, "PERMISSION") ELSE Goto(r, "deletePoll"))
    /\ UNCHANGED <<polls, poll_options, votes, nextId, started>>

\* PollDatabase.deletePoll; options and votes go with the poll row
RouteDelete_deletePoll(p) ==
    /\ At(p, "DELETE_poll", "deletePoll")
    /\ \E ok \in BOOLEAN :
        LET r == Called(req[p], "deletePoll", ok)
        IN  IF ok
            THEN /\ polls' = DeletePollRow(polls, r.poll)
                 /\ poll_options' = CascadeDelete(poll_options, r.poll)
                 /\ votes' = CascadeDelete(votes, r.poll)
                 /\ Step(p, Respond(r, "SUCCESS"))
            ELSE /\ Step(p, Respond(r, "DATABASE"))
                 /\ UNCHANGED <<polls, poll_options, votes>>
    /\ UNCHANGED <<nextId, started>>

\* ------------------------------------------------------ duplicate options
\* options.filter((option, index, self) => index === self.findIndex(o => same
\* normalized text)): the indices of the first occurrences
\* findIndex comparing the stored texts as they are
FindIndex_Exact(list, text) ==
    CHOOSE i \in 1..Len(list) :
        /\ list[i].text = text
        /\ \A j \in 1..(i - 1) : list[j].text # text

FindIndex(list, text) ==
    CHOOSE i \in 1..Len(list) :
        /\ NormalizedText(list[i].text) = NormalizedText(text)
        /\ \A j \in 1..(i - 1) : NormalizedText(list[j].text) # NormalizedText(text)

UniqueOptionIds(list) ==
    {list[i].id : i \in {k \in 1..Len(list) : k = FindIndex(list, list[k].text)}}

\* options.filter(option => !uniqueOptions.some(u => u.id === option.id)).map(id)
DuplicateIds(list) ==
    LET dup(o) == o.id \notin UniqueOptionIds(list)
        d == SelectSeq(list, dup)
    IN  [i \in 1..Len(d) |-> d[i].id]

\* the loop of the cleanup route that takes the poll id from the body: a Set of
\* the normalized texts seen so far
RECURSIVE DuplicateIdsBySet(_, _)
DuplicateIdsBySet(list, seen) ==
    IF list = <<>> THEN <<>>
    ELSE LET n == NormalizedText(Head(list).text)
         IN  IF n \in seen
             THEN <<Head(list).id>> \o DuplicateIdsBySet(Tail(list), seen)
             ELSE DuplicateIdsBySet(Tail(list), seen \cup {n})

Range(f) == {f[i] : i \in DOMAIN f}

\* ------------------------------ POST /api/polls/[id]/cleanup (cleanup route)
RouteCleanup(p) ==
    \E user \in Users \cup {NoUser}, pid \in PollIds :
        LET r == NewRequest("POST_cleanup", user, pid, 0, NoPayload)
        IN  Start(p,
                IF ~Authenticated(user) THEN Respond(r, withErrorHandling("NEXT_REDIRECT"))
                ELSE Goto(r, "getPollById"))

RouteCleanup_getPollById(p) == Route_getPollById(p, "POST_cleanup")

RouteCleanup_requirePollOwnership(p) ==
    /\ At(p, "POST_cleanup", "requirePollOwnership")
    /\ \E ok \in BOOLEAN :
        LET owner == verifyPollOwnership(polls, req[p].poll, req[p].user, ok)
            r == Called(req[p], "verifyPollOwnership", owner)
        IN  Step(p, IF ~owner THEN Respond(r, "PERMISSION") ELSE Goto(r, "getPollOptions"))
    /\ UNCHANGED <<polls, poll_options, votes, nextId, started>>

\* removeDuplicateOptions up to its delete: getPollOptions, then the two filters
RouteCleanup_getPollOptions(p) ==
    /\ At(p, "POST_cleanup", "getPollOptions")
    /\ \/ Step(p, Respond(Called(req[p], "getPollOptions", FALSE), "DATABASE"))
       \/ \E list \in Orderings(RowsOfPoll(poll_options, req[p].poll)) :
            LET r == [Called(req[p], "getPollOptions", TRUE) EXCEPT !.ids = DuplicateIds(list)]
            IN  Step(p, IF Len(r.ids) > 0 THEN Goto(r, "deleteDuplicates")
                        ELSE Respond(r, "SUCCESS"))
    /\ UNCHANGED <<polls, poll_options, votes, nextId, started>>

\* removeDuplicateOptions: delete().in("id", duplicateIds), return duplicateIds.length
RouteCleanup_deleteDuplicates(p) ==
    /\ At(p, "POST_cleanup", "deleteDuplicates")
    /\ \E ok \in BOOLEAN :
        LET r == Called(req[p], "deleteDuplicates", ok)
        IN  IF ok
            THEN /\ poll_options' = DeleteOptionIds(poll_options, Range(r.ids))
                 /\ Step(p, [Respond(r, "SUCCESS") EXCEPT !.count = Len(r.ids)])
            ELSE /\ Step(p, Respond(r, "DATABASE"))
                 /\ UNCHANGED poll_options
    /\ UNCHANGED <<polls, votes, nextId, started>>

\* ------------------- POST cleanup with the poll id in the body (older route)
\* 401 without a user; no look at the poll or its owner
BodyCleanup(p) ==
    \E user \in Users \cup {NoUser}, pid \in PollIds :
        LET r == NewRequest("POST_cleanup_body", user, pid, 0, NoPayload)
        IN  Start(p,
                IF ~Authenticated(user) THEN Respond(r, "AUTH_REQUIRED")
                ELSE Goto(r, "selectOptions"))

BodyCleanup_selectOptions(p) ==
    /\ At(p, "POST_cleanup_body", "selectOptions")
    /\ \/ Step(p, Respond(Called(req[p], "getPollOptions", FALSE), "DATABASE"))
       \/ \E list \in Orderings(RowsOfPoll(poll_options, req[p].poll)) :
            LET r == [Called(req[p], "getPollOptions", TRUE)
                         EXCEPT !.ids = DuplicateIdsBySet(list, {})]
            IN  Step(p, IF Len(r.ids) > 0 THEN Goto(r, "deleteDuplicates")
                        ELSE Respond(r, "SUCCESS"))
    /\ UNCHANGED <<polls, poll_options, votes, nextId, started>>

BodyCleanup_deleteDuplicates(p) ==
    /\ At(p, "POST_cleanup_body", "deleteDuplicates")
    /\ \E ok \in BOOLEAN :
        LET r == Called(req[p], "deleteDuplicates", ok)
        IN  IF ok
            THEN /\ poll_options' = DeleteOptionIds(poll_options, Range(r.ids))
                 /\ Step(p, [Respond(r, "SUCCESS") EXCEPT !.count = Len(r.ids)])
            ELSE /\ Step(p, Respond(r, "DATABASE"))
                 /\ UNCHANGED poll_options
    /\ UNCHANGED <<polls, votes, nextId, started>>

\* ------------------------- lib/actions.ts cleanupPollDuplicates (server action)
\* no look at the poll or its owner either
ActionCleanup(p) ==
    \E user \in Users \cup {NoUser}, pid \in PollIds :
        LET r == NewRequest("cleanupPollDuplicates", user, pid, 0, NoPayload)
        IN  Start(p,
                IF ~Authenticated(user) THEN Respond(r, "AUTH_REQUIRED")
                ELSE Goto(r, "selectOptions"))

ActionCleanup_selectOptions(p) ==
    /\ At(p, "cleanupPollDuplicates", "selectOptions")
    /\ \/ Step(p, Respond(Called(req[p], "getPollOptions", FALSE), "DATABASE"))
       \/ \E list \in Orderings(RowsOfPoll(poll_options, req[p].poll)) :
            LET r == [Called(req[p], "getPollOptions", TRUE) EXCEPT !.ids = DuplicateIds(list)]
            IN  Step(p, IF Len(r.ids) > 0 THEN Goto(r, "deleteDuplicates")
                        ELSE Respond(r, "SUCCESS"))
    /\ UNCHANGED <<polls, poll_options, votes, nextId, started>>

ActionCleanup_deleteDuplicates(p) ==
    /\ At(p, "cleanupPollDuplicates", "deleteDuplicates")
    /\ \E ok \in BOOLEAN :
        LET r == Called(req[p], "deleteDuplicates", ok)
        IN  IF ok
            THEN /\ poll_options' = DeleteOptionIds(poll_options, Range(r.ids))
                 /\ Step(p, [Respond(r, "SUCCESS") EXCEPT !.count = Len(r.ids)])
            ELSE /\ Step(p, Respond(r, "DATABASE"))
                 /\ UNCHANGED poll_options
    /\ UNCHANGED <<polls, votes, nextId, started>>

\* -------------------------------- POST /api/polls/[id]/vote (cast vote route)
\* PollDatabase.castVote: one insert into votes, no look for an earlier vote of
\* the same user
castVote(rows, id, pid, oid, uid) == rows \cup {VoteRow(id, pid, oid, uid)}

RouteVote(p) ==
    \E user \in Users \cup {NoUser}, pid \in PollIds, oid \in {o.id : o \in poll_options} :
        LET r == NewRequest("POST_vote", user, pid, oid, NoPayload)
        IN  Start(p,
                IF ~Authenticated(user) THEN Respond(r, withErrorHandling("NEXT_REDIRECT"))
                ELSE Goto(r, "castVote"))

RouteVote_castVote(p) ==
    /\ At(p, "POST_vote", "castVote")
    /\ \E ok \in BOOLEAN :
        LET done == ok /\ PollExists(polls, req[p].poll)
            r == Called(req[p], "castVote", done)
        IN  IF done
            THEN /\ votes' = castVote(votes, nextId.vote, r.poll, r.option, r.user)
                 /\ nextId' = [nextId EXCEPT !.vote = @ + 1]
                 /\ Step(p, Respond(r, "SUCCESS"))
            ELSE /\ Step(p, Respond(r, "DATABASE"))
                 /\ UNCHANGED <<votes, nextId>>
    /\ UNCHANGED <<polls, poll_options, started>>

\* ------------------------------------- lib/actions.ts deletePoll (server action)
ActionDelete(p) ==
    \E user \in Users \cup {NoUser}, pid \in PollIds :
        LET r == NewRequest("deletePoll", user, pid, 0, NoPayload)
        IN  Start(p,
                IF ~Authenticated(user) THEN Respond(r, "AUTH_REQUIRED")
                ELSE Goto(r, "selectOwner"))

\* select("created_by").eq("id", pollId).single(), then the two checks
ActionDelete_selectOwner(p) ==
    /\ At(p, "deletePoll", "selectOwner")
    /\ \E ok \in BOOLEAN :
        LET found == ok /\ PollExists(polls, req[p].poll)
            r == Called(req[p], "selectOwner", found)
        IN  Step(p, IF ~found THEN Respond(r, "NOT_FOUND")
                    ELSE IF polls[r.poll].created_by # r.user THEN Respond(r, "PERMISSION")
                    ELSE Goto(r, "deletePoll"))
    /\ UNCHANGED <<polls, poll_options, votes, nextId, started>>

ActionDelete_deletePoll(p) ==
    /\ At(p, "deletePoll", "deletePoll")
    /\ \E ok \in BOOLEAN :
        LET r == Called(req[p], "deletePoll", ok)
        IN  IF ok
            THEN /\ polls' = DeletePollRow(polls, r.poll)
                 /\ poll_options' = CascadeDelete(poll_options, r.poll)
                 /\ votes' = CascadeDelete(votes, r.poll)
                 /\ Step(p, Respond(r, "SUCCESS"))
            ELSE /\ Step(p, Respond(r, "DATABASE"))
                 /\ UNCHANGED <<polls, poll_options, votes>>
    /\ UNCHANGED <<nextId, started>>

\* ------------------------------------- lib/actions.ts updatePoll (server action)
ActionUpdate(p) ==
    \E user \in Users \cup {NoUser}, pid \in PollIds, payload \in UpdatePayloads :
        LET r == NewRequest("updatePoll", user, pid, 0, payload)
        IN  Start(p,
                IF ~Authenticated(user) THEN Respond(r, "AUTH_REQUIRED")
                ELSE Goto(r, "selectOwner"))

\* the owner check, then JSON.parse (nothing catches its exception), safeParse
\* and the cleanOptions check, whose answer carries a message and no errors map
ActionUpdate_selectOwner(p) ==
    /\ At(p, "updatePoll", "selectOwner")
    /\ \E ok \in BOOLEAN :
        LET found == ok /\ PollExists(polls, req[p].poll)
            r == Called(req[p], "selectOwner", found)
            v == ActionSchema(r.payload)
            clean == CleanOptions(v.data.options)
        IN  Step(p, IF ~found THEN Respond(r, "NOT_FOUND")
                    ELSE IF polls[r.poll].created_by # r.user THEN Respond(r, "PERMISSION")
                    ELSE IF r.payload.json = "bad" THEN Respond(r, "EXCEPTION")
                    ELSE IF ~v.success
                         THEN [Respond(r, "VALIDATION") EXCEPT !.errs = v.errors]
                    ELSE IF Len(clean) < MinOptions THEN Respond(r, "VALIDATION")
                    ELSE [Goto(r, "update") EXCEPT
                             !.data = [v.data EXCEPT !.options = TrimmedOptions(clean)],
                             !.snap = Snapshot(r.poll)])
    /\ UNCHANGED <<polls, poll_options, votes, nextId, started>>

ActionUpdate_update(p) ==
    /\ At(p, "updatePoll", "update")
    /\ \E ok \in BOOLEAN :
        LET r == Called(req[p], "updatePoll", ok)
        IN  IF ok
            THEN /\ polls' = UpdatePollRow(polls, r.poll, r.data.title, r.data.description)
                 /\ Step(p, Goto(r, "selectOptions"))
            ELSE /\ Step(p, Respond(r, "DATABASE"))
                 /\ UNCHANGED polls
    /\ UNCHANGED <<poll_options, votes, nextId, started>>

\* two reads of the poll's options: the outcome of the first is only logged
\* (it is not recorded here), a failure of the second ends the action
ActionUpdate_selectOptions(p) ==
    /\ At(p, "updatePoll", "selectOptions")
    /\  LET r0 == req[p]
        IN  \/ Step(p, Respond(Called(r0, "selectOptionIds", FALSE), "DATABASE"))
            \/ \E list \in Orderings(RowsOfPoll(poll_options, r0.poll)) :
                 LET r == [Called(r0, "selectOptionIds", TRUE)
                              EXCEPT !.ids = [i \in DOMAIN list |-> list[i].id]]
                 IN  Step(p, Goto(r, IF Len(r.ids) > 0 THEN "deleteEach" ELSE "insertOptions"))
    /\ UNCHANGED <<polls, poll_options, votes, nextId, started>>

\* for (const option of optionsToDelete): one delete per option, an error is
\* logged and the loop goes on
ActionUpdate_deleteEach(p) ==
    /\ At(p, "updatePoll", "deleteEach")
    /\ \E ok \in BOOLEAN :
        LET r == [Called(req[p], "deleteOption", ok) EXCEPT !.ids = Tail(@)]
        IN  /\ Step(p, Goto(r, IF Len(r.ids) > 0 THEN "deleteEach" ELSE "insertOptions"))
            /\ poll_options' = IF ok THEN DeleteOptionIds(poll_options, {Head(req[p].ids)})
                               ELSE poll_options
    /\ UNCHANGED <<polls, votes, nextId, started>>

\* the "double-check" read (its outcome is only logged and not recorded here),
\* then the insert of the trimmed options
ActionUpdate_insertOptions(p) ==
    /\ At(p, "updatePoll", "insertOptions")
    /\ \E ok \in BOOLEAN :
        LET done == ok /\ PollExists(polls, req[p].poll)
            r == Called(req[p], "createPollOptions", done)
        IN  IF done
            THEN /\ poll_options' = InsertOptionRows(poll_options, r.poll,
                                        Texts(r.data.options), nextId.option)
                 /\ nextId' = [nextId EXCEPT !.option = @ + Len(r.data.options)]
                 /\ Step(p, Respond(r, "SUCCESS"))
            ELSE /\ Step(p, Respond(r, "DATABASE"))
                 /\ UNCHANGED <<poll_options, nextId>>
    /\ UNCHANGED <<polls, votes, started>>

\* ------------------------------------------------------------------ reply
\* return NextResponse.json(actionResult) / the action's return: the envelope
\* goes to the caller and the slot is free again
Reply(p) ==
    /\ req[p].pc = "done"
    /\ req' = [req EXCEPT ![p] = Idle]
    /\ UNCHANGED <<polls, poll_options, votes, nextId, started>>

\* ------------------------------------------------------------------ next
Next ==
    \E p \in Procs :
        \/ Reply(p)
        \/ RouteCreate(p)
        \/ RouteCreate_createPoll(p)
        \/ RouteCreate_createPollOptions(p)
        \/ RouteCreate_rollback(p)
        \/ ActionCreate(p)
        \/ ActionCreate_insertPoll(p)
        \/ ActionCreate_insertOptions(p)
        \/ ActionCreate_deletePoll(p)
        \/ RouteUpdate(p)
        \/ RouteUpdate_getPollById(p)
        \/ RouteUpdate_requirePollOwnership(p)
        \/ RouteUpdate_updatePoll(p)
        \/ RouteUpdate_deletePollOptions(p)
        \/ RouteUpdate_createPollOptions(p)
        \/ RouteDelete(p)
        \/ RouteDelete_getPollById(p)
        \/ RouteDelete_requirePollOwnership(p)
        \/ RouteDelete_deletePoll(p)
        \/ RouteCleanup(p)
        \/ RouteCleanup_getPollById(p)
        \/ RouteCleanup_requirePollOwnership(p)
        \/ RouteCleanup_getPollOptions(p)
        \/ RouteCleanup_deleteDuplicates(p)
        \/ BodyCleanup(p)
        \/ BodyCleanup_selectOptions(p)
        \/ BodyCleanup_deleteDuplicates(p)
        \/ ActionCleanup(p)
        \/ ActionCleanup_selectOptions(p)
        \/ ActionCleanup_deleteDuplicates(p)
        \/ RouteVote(p)
        \/ RouteVote_castVote(p)
        \/ ActionDelete(p)
        \/ ActionDelete_selectOwner(p)
        \/ ActionDelete_deletePoll(p)
        \/ ActionUpdate(p)
        \/ ActionUpdate_selectOwner(p)
        \/ ActionUpdate_update(p)
        \/ ActionUpdate_selectOptions(p)
        \/ ActionUpdate_deleteEach(p)
        \/ ActionUpdate_insertOptions(p)

Spec == Init /\ [][Next]_vars

\* ================================================================ claims
Done(p) == req[p].pc = "done"

CreateOps == {"POST_polls", "createPoll"}
UpdateOps == {"PUT_poll", "updatePoll"}
DeleteOps == {"DELETE_poll", "deletePoll"}
CleanupOps == {"POST_cleanup", "POST_cleanup_body", "cleanupPollDuplicates"}

WriteCalls ==
    {"createPoll", "createPollOptions", "updatePoll", "deletePoll", "deletePollOptions",
     "deleteDuplicates", "deleteOption", "castVote"}

\* the positions of the storage writes a request has issued
Writes(r) == {i \in DOMAIN r.calls : r.calls[i].name \in WriteCalls}

AllOk(r) == \A i \in DOMAIN r.calls : r.calls[i].ok

\* an authenticated caller, a poll that existed when the request arrived, and an
\* owner other than the caller
ByNonOwner(r) == r.user # NoUser /\ r.owner0 \notin {"none", r.user}

RECURSIVE SortedById(_)
SortedById(S) ==
    IF S = {} THEN <<>>
    ELSE LET m == CHOOSE r \in S : \A q \in S : r.id <= q.id
         IN  <<m>> \o SortedById(S \ {m})

\* the option texts stored for a poll, in insertion order
StoredTexts(pid) == Texts(SortedById(RowsOfPoll(poll_options, pid)))

StoredIds(pid) == {o.id : o \in RowsOfPoll(poll_options, pid)}

\* C1: at most one Vote row per (poll, user) pair, in every reachable state.
C1_OneVotePerPollUser ==
    \A v, w \in votes : (v.poll_id = w.poll_id /\ v.user_id = w.user_id) => v = w

\* C2 as stated: an update or delete of an existing poll by an authenticated
\* non-owner returns permission-denied and issues no write.
C2_NonOwnerAlwaysDenied ==
    \A p \in Procs :
        (Done(p) /\ req[p].op \in UpdateOps \cup DeleteOps /\ ByNonOwner(req[p]))
            => (req[p].res = "PERMISSION" /\ Writes(req[p]) = {})

\* C2 amended: such a request never succeeds and issues no write; it returns
\* permission-denied whenever its read of the poll returns the row, NOT_FOUND when
\* that read returns no row, and the update route, which validates before it
\* reads, answers an invalid payload with VALIDATION (UNKNOWN when the options
\* field does not parse).
C2_NonOwnerNeverWrites ==
    \A p \in Procs :
        (Done(p) /\ req[p].op \in UpdateOps \cup DeleteOps /\ ByNonOwner(req[p]))
            => LET r == req[p]
               IN  /\ Writes(r) = {}
                   /\ r.res # "SUCCESS"
                   /\ IF r.calls # <<>>
                      THEN r.res = IF r.calls[1].ok THEN "PERMISSION" ELSE "NOT_FOUND"
                      ELSE /\ r.op = "PUT_poll"
                           /\ r.res = IF r.payload.json = "bad" THEN "UNKNOWN" ELSE "VALIDATION"
                           /\ r.payload.json = "ok" => ~ValidationSchema(r.payload).success

C2_Witness ==
    \E p \in Procs :
        /\ Done(p) /\ req[p].op = "PUT_poll" /\ ByNonOwner(req[p])
        /\ req[p].res = "PERMISSION"
        /\ PollExists(polls, req[p].poll)

\* the calls whose logged flag says "row found" / "caller owns it"
LoadCalls == {"getPollById", "selectOwner"}

OwnershipCalls == {"verifyPollOwnership", "selectOwner"}

\* every storage call of the request, other than the named ones, succeeded
OkExcept(r, names) == \A i \in DOMAIN r.calls : r.calls[i].name \notin names => r.calls[i].ok

\* C3: a cleanup request by an authenticated non-owner, storage answering every
\* call, fails with PERMISSION_DENIED and issues no delete of option rows.
C3_CleanupOwnerOnly ==
    \A p \in Procs :
        (/\ Done(p) /\ req[p].op \in CleanupOps /\ ByNonOwner(req[p])
         /\ OkExcept(req[p], {"verifyPollOwnership"}))
            => (req[p].res = "PERMISSION" /\ Writes(req[p]) = {})

\* C4: every mutating request without a session ends AUTH_REQUIRED and issues no
\* storage write.
C4_AuthRequired ==
    \A p \in Procs :
        (Done(p) /\ req[p].user = NoUser)
            => (req[p].res = "AUTH_REQUIRED" /\ Writes(req[p]) = {})

\* what an update accepts: a parseable options field, the schema, and at least
\* two options left by the cleanOptions filter
ValidUpdatePayload(pl) ==
    /\ pl.json = "ok"
    /\ ValidationSchema(pl).success
    /\ Len(CleanOptions(ValidationSchema(pl).data.options)) >= MinOptions

\* C5: update (with a payload that passes validation), delete and cleanup of a
\* poll id that does not resolve return NOT_FOUND, storage answering every other
\* call, and issue no write.
C5_NotFoundFirst ==
    \A p \in Procs :
        (/\ Done(p)
         /\ req[p].op \in UpdateOps \cup DeleteOps \cup CleanupOps
         /\ req[p].user # NoUser
         /\ req[p].owner0 = "none"
         /\ ~PollExists(polls, req[p].poll)
         /\ req[p].op \in UpdateOps => ValidUpdatePayload(req[p].payload)
         /\ OkExcept(req[p], LoadCalls \cup {"verifyPollOwnership"}))
            => (req[p].res = "NOT_FOUND" /\ Writes(req[p]) = {})

\* C6: an authenticated update with an invalid payload returns VALIDATION whether
\* or not the poll exists or is the caller's, and no write is issued before the
\* ownership check has passed.
C6_UpdateOrder ==
    \A p \in Procs :
        req[p].op \in UpdateOps =>
            /\ (Done(p) /\ req[p].user # NoUser /\ ~ValidUpdatePayload(req[p].payload))
                   => (req[p].res = "VALIDATION" /\ Writes(req[p]) = {})
            /\ \A i \in Writes(req[p]) :
                   \E j \in 1..(i - 1) :
                       req[p].calls[j].name \in OwnershipCalls /\ req[p].calls[j].ok

\* the payloads C7 is about: title of 5..200 characters, description of at most
\* 1000, 2..10 options of at most 100 characters, non-empty and pairwise
\* distinct once trimmed and lower-cased
ValidCreationPayload(pl) ==
    /\ Len(pl.title) >= MinTitleLen /\ Len(pl.title) <= MaxTitleLen
    /\ pl.description = None \/ Len(pl.description[1]) <= MaxDescLen
    /\ Len(pl.options) >= MinOptions /\ Len(pl.options) <= MaxOptions
    /\ \A i \in DOMAIN pl.options :
          Trim(pl.options[i].text) # <<>> /\ Len(pl.options[i].text) <= MaxOptionLen
    /\ AllUnique(TrimmedOptions(pl.options))

CreateSucceeded(r) ==
    /\ r.pc = "done" /\ r.op \in CreateOps /\ r.user # NoUser
    /\ ValidCreationPayload(r.payload)
    /\ AllOk(r)

\* C7 as stated: a valid create whose storage calls all succeed returns success
\* with the new poll id and the stored options are exactly the submitted ones.
C7_StoredExactlySubmitted ==
    \A p \in Procs :
        CreateSucceeded(req[p])
            => /\ req[p].res = "SUCCESS" /\ req[p].rid = req[p].poll
               /\ StoredTexts(req[p].rid) = Texts(req[p].payload.options)

\* C7 amended: ... the stored options are the submitted ones in order, trimmed of
\* surrounding whitespace by the create route (the server action stores them as
\* submitted), as many as were submitted, when no other request has written
\* options of the new poll before the create's own insert.
C7_StoredSubmittedTrimmed ==
    \A p \in Procs :
        (CreateSucceeded(req[p]) /\ req[p].pre = {})
            => LET r == req[p]
               IN  /\ r.res = "SUCCESS" /\ r.rid = r.poll /\ PollExists(polls, r.rid)
                   /\ polls[r.rid].created_by = r.user
                   /\ StoredTexts(r.rid) =
                          IF r.op = "POST_polls"
                          THEN Texts(TrimmedOptions(r.payload.options))
                          ELSE Texts(r.payload.options)
                   /\ Cardinality(RowsOfPoll(poll_options, r.rid)) = Len(r.payload.options)

C7_Witness ==
    \E p \in Procs :
        /\ CreateSucceeded(req[p]) /\ req[p].pre = {}
        /\ req[p].op = "POST_polls"
        /\ req[p].payload.options = OptsPadded
        /\ StoredTexts(req[p].rid) = << <<"b">>, <<"a">> >>

OptionInsertFailed(r) ==
    /\ r.pc = "done" /\ r.op \in CreateOps
    /\ Len(r.calls) >= 2
    /\ r.calls[1] = Call("createPoll", TRUE)
    /\ r.calls[2] = Call("createPollOptions", FALSE)

C9_UpdateAtomic ==
    \A p \in Procs :
        (/\ Done(p) /\ req[p].op = "PUT_poll"
         /\ \E i \in DOMAIN req[p].calls : req[p].calls[i].name = "updatePoll")
            => LET r == req[p]
               IN  IF r.res = "SUCCESS"
                   THEN /\ polls[r.poll].title = r.data.title
                        /\ polls[r.poll].description = r.data.description
                        /\ StoredTexts(r.poll) = Texts(r.data.options)
                   ELSE Snapshot(r.poll) = r.snap

\* C10: after an update returns success the stored options are exactly the
\* submitted non-empty options, trimmed, and no option id from before the update
\* survives.
C10_UpdateReplacesOptions ==
    \A p \in Procs :
        (Done(p) /\ req[p].op \in UpdateOps /\ req[p].res = "SUCCESS")
            => /\ StoredTexts(req[p].poll) =
                      Texts(TrimmedOptions(CleanOptions(req[p].payload.options)))
               /\ StoredIds(req[p].poll) \cap req[p].pre = {}

\* ------------------------------------------------ behaviours from a clean store
\* the store holding one poll whose options are distinct
InitDistinct ==
    /\ InitClean
    /\ votes = {}
    /\ req = [p \in Procs |-> Idle]
    /\ started = 0

SpecDistinct == InitDistinct /\ [][Next]_vars

OptionsDistinct(pid) ==
    \A o1, o2 \in RowsOfPoll(poll_options, pid) :
        NormalizedText(o1.text) = NormalizedText(o2.text) => o1 = o2

\* C11: in every reachable state the option texts of each poll are pairwise
\* distinct once trimmed and lower-cased.
C11_OptionTextsDistinct == \A pid \in PollIds : OptionsDistinct(pid)

\* C12: after a delete request by the owner returns success the poll does not
\* resolve and no poll_options row and no votes row references it.
C12_DeleteLeavesNothing ==
    \A p \in Procs :
        (/\ Done(p) /\ req[p].op \in DeleteOps /\ req[p].res = "SUCCESS"
         /\ req[p].user = req[p].owner0)
            => /\ ~PollExists(polls, req[p].poll)
               /\ RowsOfPoll(poll_options, req[p].poll) = {}
               /\ RowsOfPoll(votes, req[p].poll) = {}

\* a successful delete of a poll that had options and a vote
C12_Witness ==
    \E p \in Procs :
        /\ Done(p) /\ req[p].op \in DeleteOps /\ req[p].res = "SUCCESS"
        /\ req[p].user = req[p].owner0
        /\ req[p].pre # {}
        /\ nextId.vote > 1
        /\ ~PollExists(polls, req[p].poll)

\* --------------------------- removeDuplicateOptions run on its own, twice over
MaxOptionRows == 3

OptionTexts == {<<"a">>, <<"A">>, <<" ", "a">>, <<"b">>}

\* poll 1 with up to MaxOptionRows options of any of the texts
InitRemoveDuplicates ==
    /\ polls = (1 :> PollRow(TitleGood, None, "u1"))
    /\ \E n \in 0..MaxOptionRows : \E f \in [1..n -> OptionTexts] :
           poll_options = {OptionRow(i, 1, f[i]) : i \in 1..n}
    /\ votes = {}
    /\ nextId = [poll |-> 2, option |-> MaxOptionRows + 1, vote |-> 1]
    /\ req = [p \in Procs |-> Idle]
    /\ started = 0

\* PollDatabase.removeDuplicateOptions from its call to its return or throw; the
\* second run starts when the first has returned
removeDuplicateOptions(p) ==
    /\ req[p].pc = "idle"
    /\ p = "p1" \/ req["p1"].pc = "done"
    /\ started' = started + 1
    /\ LET r0 == [NewRequest("removeDuplicateOptions", "u1", 1, 0, NoPayload)
                    EXCEPT !.snap = Snapshot(1)]
       IN  \/ /\ req' = [req EXCEPT ![p] =
                            Respond(Called(r0, "getPollOptions", FALSE), "DATABASE")]
              /\ UNCHANGED poll_options
           \/ \E list \in Orderings(RowsOfPoll(poll_options, 1)), ok \in BOOLEAN :
                LET r1 == [Called(r0, "getPollOptions", TRUE)
                              EXCEPT !.ids = DuplicateIds(list), !.data.options = list]
                    r2 == Called(r1, "deleteDuplicates", ok)
                IN  IF Len(r1.ids) = 0
                    THEN /\ req' = [req EXCEPT ![p] = Respond(r1, "SUCCESS")]
                         /\ UNCHANGED poll_options
                    ELSE IF ok
                    THEN /\ req' = [req EXCEPT ![p] =
                                       [Respond(r2, "SUCCESS") EXCEPT !.count = Len(r2.ids)]]
                         /\ poll_options' = DeleteOptionIds(poll_options, Range(r2.ids))
                    ELSE /\ req' = [req EXCEPT ![p] = Respond(r2, "DATABASE")]
                         /\ UNCHANGED poll_options
    /\ UNCHANGED <<polls, votes, nextId>>

NextRemoveDuplicates == \E p \in Procs : removeDuplicateOptions(p)

SpecRemoveDuplicates == InitRemoveDuplicates /\ [][NextRemoveDuplicates]_vars

Returned(r) == r.pc = "done" /\ r.op = "removeDuplicateOptions" /\ r.res = "SUCCESS"

DistinctNormalized(rows) == {NormalizedText(o.text) : o \in rows}

\* C13: after a first run that returned, the surviving options are as many as
\* the distinct normalized texts of the original set, and a second run right
\* after it returns 0 and removes nothing.
C13_Idempotent ==
    Returned(req["p1"]) =>
        /\ Cardinality(RowsOfPoll(poll_options, 1))
               = Cardinality(DistinctNormalized(req["p1"].snap.options))
        /\ Returned(req["p2"]) =>
               /\ req["p2"].count = 0
               /\ RowsOfPoll(poll_options, 1) = req["p2"].snap.options

\* a first run that removed duplicates, then a second run
C13_Witness ==
    /\ Returned(req["p1"]) /\ req["p1"].count > 0
    /\ Returned(req["p2"]) /\ req["p2"].count = 0


\* ------------------------------------------------------------------- C14
DeleteStep(p) ==
    /\ At(p, "POST_cleanup", "deleteDuplicates")
    /\ req'[p].pc = "done"

\* C14: when removeDuplicateOptions issues its delete, a failed call removes
\* no option and a successful one removes as many option rows as the count the
\* operation returns.
C14_CountIsRowsDeleted ==
    [][\A p \in Procs :
        DeleteStep(p) =>
            IF req'[p].res = "SUCCESS"
            THEN /\ poll_options' \subseteq poll_options
                 /\ req'[p].count = Cardinality(poll_options \ poll_options')
            ELSE poll_options' = poll_options]_vars


\* ---------------------------------------------------------- polls listing
\* app/(main)/polls/page.tsx and the page before its refactor.  Nothing is
\* written: storage is drawn at the start and one viewer loads the refactored
\* page (slot p1) and then the earlier one (slot p2).  The users being
\* interchangeable, the first poll is u1's.
MaxListedPolls == 2
MaxListedOptions == 3
MaxListedVotes == 2

InitListing ==
    /\ \E n \in 0..MaxListedPolls : \E own \in [1..n -> Users] :
          /\ n >= 1 => own[1] = "u1"
          /\ polls = [i \in 1..n |-> PollRow(TitleGood, None, own[i])]
    /\ \E m \in 0..MaxListedOptions : \E g \in [1..m -> DOMAIN polls] :
          poll_options = {OptionRow(i, g[i], [j \in 1..i |-> "a"]) : i \in 1..m}
    /\ \E v \in 0..MaxListedVotes : \E h \in [1..v -> poll_options] :
          votes = {VoteRow(k, h[k].poll_id, h[k].id, IF k % 2 = 1 THEN "u1" ELSE "u2") :
                      k \in 1..v}
    /\ nextId = [poll |-> MaxListedPolls + 1, option |-> MaxListedOptions + 1,
                 vote |-> MaxListedVotes + 1]
    /\ req = [p \in Procs |-> Idle]
    /\ started = 0

\* from("polls").select(...).order("created_at", {ascending: false}), with
\* .eq("created_by", userId) for a signed-in viewer; created_at grows with the id
SelectPolls(ps, userId) ==
    LET S == {i \in DOMAIN ps : userId = NoUser \/ ps[i].created_by = userId}
    IN  CHOOSE f \in Orderings(S) : \A i, j \in 1..Cardinality(S) : i < j => f[i] > f[j]

\* the embedded poll_options (id, text) of a listed poll
EmbeddedOptions(rows, pid) == {[id |-> o.id, text |-> o.text] : o \in RowsOfPoll(rows, pid)}

\* a flatMap that stops after the first listed poll
AllOptionIds_FirstPoll(rows, list) ==
    IF list = <<>> THEN {} ELSE {o.id : o \in RowsOfPoll(rows, list[1])}

\* polls.flatMap(poll => poll.poll_options.map(option => option.id))
AllOptionIds(rows, list) == {o.id : o \in {r \in rows : r.poll_id \in Range(list)}}

\* from("votes").select("poll_option_id").in("poll_option_id", ids), the rows in
\* the order ord
SelectVotes(ord, ids) ==
    LET in(v) == v.option_id \in ids
        rows == SelectSeq(ord, in)
    IN  [i \in 1..Len(rows) |-> [poll_option_id |-> rows[i].option_id]]

\* a map that records an option as voted for, not how often
RECURSIVE VoteCountMap_Seen(_, _)
VoteCountMap_Seen(voteCounts, map) ==
    IF voteCounts = <<>> THEN map
    ELSE LET id == Head(voteCounts).poll_option_id
         IN  VoteCountMap_Seen(Tail(voteCounts),
                 [x \in DOMAIN map \cup {id} |-> IF x = id THEN 1 ELSE map[x]])

\* for (const vote of voteCounts) voteCountMap.set(id, (voteCountMap.get(id) || 0) + 1)
RECURSIVE VoteCountMap(_, _)
VoteCountMap(voteCounts, map) ==
    IF voteCounts = <<>> THEN map
    ELSE LET id == Head(voteCounts).poll_option_id
             currentCount == IF id \in DOMAIN map THEN map[id] ELSE 0
         IN  VoteCountMap(Tail(voteCounts),
                 [x \in DOMAIN map \cup {id} |-> IF x = id THEN currentCount + 1 ELSE map[x]])

\* voteCountMap.get(option.id) || 0
MapGet(map, id) == IF id \in DOMAIN map THEN map[id] ELSE 0

\* optionsWithVotes.reduce((sum, option) => sum + option.vote_count, 0)
RECURSIVE TotalVotes(_)
TotalVotes(optionsWithVotes) ==
    IF optionsWithVotes = {} THEN 0
    ELSE LET o == CHOOSE x \in optionsWithVotes : TRUE
         IN  o.vote_count + TotalVotes(optionsWithVotes \ {o})

PollWithVotes(pid, optionsWithVotes) ==
    [id |-> pid, poll_options |-> optionsWithVotes, total_votes |-> TotalVotes(optionsWithVotes)]

\* voteData?.filter(vote => vote.poll_option_id === option.id).length || 0
FilterCount(voteData, id) ==
    LET same(v) == v.poll_option_id = id
    IN  Len(SelectSeq(voteData, same))

\* page.tsx fetchPollsWithVoteCounts, as PollsPage calls it for the viewer
fetchPollsWithVoteCounts ==
    /\ req["p1"].pc = "idle"
    /\ started' = started + 1
    /\ \E user \in Users \cup {NoUser}, pollsOk \in BOOLEAN, votesOk \in BOOLEAN,
          ord \in Orderings(votes) :
        LET r0 == NewRequest("fetchPollsWithVoteCounts", user, 0, 0, NoPayload)
            list == SelectPolls(polls, user)
            voteCounts == SelectVotes(ord, AllOptionIds(poll_options, list))
            voteCountMap == IF votesOk THEN VoteCountMap(voteCounts, <<>>) ELSE <<>>
            withVotes(pid) ==
                {[id |-> o.id, text |-> o.text, vote_count |-> MapGet(voteCountMap, o.id)] :
                    o \in EmbeddedOptions(poll_options, pid)}
        IN  IF ~pollsOk
            THEN Step("p1", Respond(Called(r0, "selectPolls", FALSE), "ERROR_PAGE"))
            ELSE IF list = <<>>
            THEN Step("p1", [Respond(Called(r0, "selectPolls", TRUE), "PAGE")
                                EXCEPT !.data = [polls |-> <<>>]])
            ELSE Step("p1", [Respond(Called(Called(r0, "selectPolls", TRUE),
                                            "selectVotes", votesOk), "PAGE")
                                EXCEPT !.data = [polls |->
                                    [i \in 1..Len(list) |-> PollWithVotes(list[i], withVotes(list[i]))]]])
    /\ UNCHANGED <<polls, poll_options, votes, nextId>>

\* pollsPage-before.tsx PollsPage: one vote query per listed poll
PollsPage_before ==
    /\ req["p2"].pc = "idle"
    /\ req["p1"].pc = "done"
    /\ started' = started + 1
    /\ \E user \in {req["p1"].user}, pollsOk \in BOOLEAN, ord \in Orderings(votes) :
        LET r0 == NewRequest("PollsPage_before", user, 0, 0, NoPayload)
            list == SelectPolls(polls, user)
        IN  IF ~pollsOk
            THEN Step("p2", Respond(Called(r0, "selectPolls", FALSE), "ERROR_PAGE"))
            ELSE \E votesOk \in [1..Len(list) -> BOOLEAN] :
                LET voteData(i) ==
                        IF votesOk[i]
                        THEN SelectVotes(ord, {o.id : o \in EmbeddedOptions(poll_options, list[i])})
                        ELSE <<>>
                    voteCounts(i) ==
                        {[id |-> o.id, text |-> o.text, vote_count |-> FilterCount(voteData(i), o.id)] :
                            o \in EmbeddedOptions(poll_options, list[i])}
                    r1 == [Called(r0, "selectPolls", TRUE) EXCEPT
                              !.calls = @ \o [i \in 1..Len(list) |-> Call("selectVotes", votesOk[i])]]
                IN  Step("p2", [Respond(r1, "PAGE") EXCEPT !.data = [polls |->
                        [i \in 1..Len(list) |-> PollWithVotes(list[i], voteCounts(i))]]])
    /\ UNCHANGED <<polls, poll_options, votes, nextId>>

NextListing == fetchPollsWithVoteCounts \/ PollsPage_before

SpecListing == InitListing /\ [][NextListing]_vars

\* ------------------------------------------------------------------- C15
Listed(r) == r.pc = "done" /\ r.res = "PAGE"

VotesFor(ids) == {v \in votes : v.option_id \in ids}

\* C15: in the refactored listing every option's vote_count is the number of
\* votes that name the option, votes for options outside a poll's option set do
\* not count for that poll, and total_votes is the sum of the poll's counts.
C15_TallyCounts ==
    (Listed(req["p1"]) /\ AllOk(req["p1"])) =>
        \A i \in DOMAIN req["p1"].data.polls :
            LET e == req["p1"].data.polls[i]
            IN  /\ {[id |-> o.id, text |-> o.text] : o \in e.poll_options}
                      = EmbeddedOptions(poll_options, e.id)
                /\ \A o \in e.poll_options : o.vote_count = Cardinality(VotesFor({o.id}))
                /\ e.total_votes = Cardinality(VotesFor({o.id : o \in e.poll_options}))

C15_Witness ==
    /\ Listed(req["p1"]) /\ AllOk(req["p1"])
    /\ Len(req["p1"].data.polls) = 2
    /\ \A i \in 1..2 : req["p1"].data.polls[i].total_votes = 1
    /\ Cardinality(votes) = 2


\* ------------------------------------------------------------------- C16
SameViewer == req["p1"].user = req["p2"].user

\* C16: for the same viewer and the same stored polls, options and votes, the
\* refactored listing and the listing before the refactor, all their queries
\* having succeeded, show the same polls in the same order with the same
\* vote_count for every option and the same total_votes.
C16_SameListing ==
    (/\ Listed(req["p1"]) /\ AllOk(req["p1"])
     /\ Listed(req["p2"]) /\ AllOk(req["p2"])
     /\ SameViewer)
        => req["p1"].data.polls = req["p2"].data.polls

C16_Witness ==
    /\ Listed(req["p1"]) /\ AllOk(req["p1"])
    /\ Listed(req["p2"]) /\ AllOk(req["p2"])
    /\ SameViewer
    /\ req["p1"].user \in Users
    /\ Len(req["p2"].data.polls) = 2
    /\ \A i \in 1..2 : req["p2"].data.polls[i].total_votes = 1


\* ------------------------------------------------------------------- C17
MutatingOps == CreateOps \cup UpdateOps \cup DeleteOps \cup CleanupOps \cup {"POST_vote"}

\* A storage call of the request failed.  A load or an owner check that came
\* back empty for the caller's own, still stored poll did not find "no row": the
\* call itself failed.
StorageCallFailed(r) ==
    \E i \in DOMAIN r.calls :
        /\ ~r.calls[i].ok
        /\ r.calls[i].name \in LoadCalls \cup OwnershipCalls
              => r.owner0 = r.user /\ PollExists(polls, r.poll)

\* C17: a mutating operation one of whose storage calls failed, the load of the
\* poll and the owner check included, answers with DATABASE_ERROR.
C17_StorageFailureIsDatabaseError ==
    \A p \in Procs :
        (Done(p) /\ req[p].op \in MutatingOps /\ StorageCallFailed(req[p]))
            => req[p].res = "DATABASE"


\* ------------------------------------------------------------------- C18
\* fewer than two of the submitted options keep any text when trimmed
FewNonEmptyOptions(payload) ==
    payload.json = "ok" /\ Len(CleanOptions(payload.options)) < MinOptions

\* the caller may act on the target: any signed-in user for a create, the
\* owner of the stored poll for an update
MayWrite(r) ==
    /\ Authenticated(r.user)
    /\ r.op \in UpdateOps => r.user = r.owner0

\* C18: a create or update whose payload has fewer than two options that are
\* non-empty after trimming, sent by a caller who may write and with storage
\* answering every call, ends in VALIDATION and writes nothing.
C18_FewOptionsRejected ==
    \A p \in Procs :
        (/\ Done(p) /\ req[p].op \in CreateOps \cup UpdateOps
         /\ MayWrite(req[p]) /\ AllOk(req[p])
         /\ FewNonEmptyOptions(req[p].payload))
            => /\ req[p].res = "VALIDATION"
               /\ Writes(req[p]) = {}


\* ------------------------------------------------------------------- C19
\* two of the submitted options have the same text once trimmed and lower-cased
HasDuplicateOption(payload) ==
    \E i, j \in DOMAIN payload.options :
        /\ i # j
        /\ NormalizedText(payload.options[i].text) = NormalizedText(payload.options[j].text)

\* C19: a create by a signed-in caller whose payload has two options with the
\* same trimmed, lower-cased text ends in VALIDATION on either create path and
\* issues no insert, storage answering every call.
C19_DuplicateOptionRejected ==
    \A p \in Procs :
        (/\ Done(p) /\ req[p].op \in CreateOps
         /\ Authenticated(req[p].user) /\ AllOk(req[p])
         /\ HasDuplicateOption(req[p].payload))
            => /\ req[p].res = "VALIDATION"
               /\ Writes(req[p]) = {}


\* -------------------------------------------------------- title validation
\* The three title checks applied to one submitted title: validateCreatePollData
\* and validateUpdatePollData of lib/utils/validation.ts and the schema the
\* server actions parse with.
MaxTitleChars == 6

Repeat(c, n) == [i \in 1..n |-> c]

ShortTitles == UNION {[1..n -> {" ", "x"}] : n \in 0..MaxTitleChars}

LongTitles ==
    {Repeat("x", MaxTitleLen), Repeat("x", MaxTitleLen + 1),
     <<" ">> \o Repeat("x", MaxTitleLen), <<" ">> \o Repeat("x", MaxTitleLen - 1)}

InitTitle ==
    /\ InitClean
    /\ votes = {}
    /\ started = 0
    /\ \E t \in ShortTitles \cup LongTitles :
          req = [p \in Procs |-> [Idle EXCEPT !.payload = Payload(t, None, OptsClean, "ok")]]

Validated(r, op, v) ==
    IF v.success
    THEN [Respond(r, "SUCCESS") EXCEPT !.op = op, !.data = v.data]
    ELSE [Respond(r, "VALIDATION") EXCEPT !.op = op, !.errs = v.errors]

Validate(p) ==
    /\ req[p].pc = "idle"
    /\ started' = started + 1
    /\ \/ Step(p, Validated(req[p], "validateCreatePollData", validateCreatePollData(req[p].payload)))
       \/ Step(p, Validated(req[p], "validateUpdatePollData", validateUpdatePollData(req[p].payload)))
       \/ Step(p, Validated(req[p], "pollFormSchema", ActionSchema(req[p].payload)))
    /\ UNCHANGED <<polls, poll_options, votes, nextId>>

NextTitle == \E p \in Procs : Validate(p)

SpecTitle == InitTitle /\ [][NextTitle]_vars

\* ------------------------------------------------------------------- C20
InTitleRange(n) == n >= MinTitleLen /\ n <= MaxTitleLen

\* C20: an accepted title comes out trimmed with 5 to 200 characters, and a
\* title with fewer than 5 or more than 200 characters after trimming is
\* rejected with an error on 'title'.
C20_TitleTrimmedInRange ==
    \A p \in Procs :
        Done(p) =>
            /\ req[p].res = "SUCCESS" =>
                  /\ req[p].data.title = Trim(req[p].data.title)
                  /\ InTitleRange(Len(req[p].data.title))
            /\ ~InTitleRange(Len(Trim(req[p].payload.title))) =>
                  req[p].res = "VALIDATION" /\ "title" \in req[p].errs


\* ------------------------------------------------------ form validation
\* validateCreatePollData and validateUpdatePollData of lib/utils/validation.ts
\* applied to submissions, well-formed and malformed.
OptsOne == <<Opt(0, <<"a">>)>>
OptsEmptyText == <<Opt(0, <<"a">>), Opt(0, <<>>)>>

\* an update's options field: a JSON array, absent (read as "[]"), or a string
\* JSON.parse rejects
Submissions ==
    {Payload(t, None, o, "ok") :
        t \in {TitleGood, TitleShort, <<>>},
        o \in {OptsClean, OptsDup, OptsBlank, OptsOne, OptsEmptyText, <<>>}}
    \cup {Payload(t, None, <<>>, "bad") : t \in {TitleGood, TitleShort}}

InitValidate ==
    /\ InitClean
    /\ votes = {}
    /\ started = 0
    /\ req = [p \in Procs |-> Idle]

\* the value the function returns, or the exception that leaves it
Returns(r, op, v) ==
    IF v.threw THEN [Respond(r, "EXCEPTION") EXCEPT !.op = op]
    ELSE IF v.success THEN [Respond(r, "SUCCESS") EXCEPT !.op = op, !.data = v.data]
    ELSE [Respond(r, "VALIDATION") EXCEPT !.op = op, !.errs = v.errors]

\* a create form has no JSON field
ApplyValidateCreate(p) ==
    /\ req[p].pc = "idle"
    /\ started' = started + 1
    /\ \E pl \in {s \in Submissions : s.json = "ok"} :
        LET v == validateCreatePollData(pl)
        IN  Step(p, Returns([req[p] EXCEPT !.payload = pl], "validateCreatePollData",
                            [success |-> v.success, errors |-> v.errors, data |-> v.data,
                             threw |-> FALSE]))
    /\ UNCHANGED <<polls, poll_options, votes, nextId>>

ApplyValidateUpdate(p) ==
    /\ req[p].pc = "idle"
    /\ started' = started + 1
    /\ \E pl \in Submissions :
        Step(p, Returns([req[p] EXCEPT !.payload = pl], "validateUpdatePollData",
                        validateUpdatePollData(pl)))
    /\ UNCHANGED <<polls, poll_options, votes, nextId>>

NextValidate == \E p \in Procs : ApplyValidateCreate(p) \/ ApplyValidateUpdate(p)

SpecValidate == InitValidate /\ [][NextValidate]_vars

\* ------------------------------------------------------------------- C21
ValidationOps == {"validateCreatePollData", "validateUpdatePollData"}

\* C21: applied to any submission, the two validation functions return: a
\* success value, or a failure value with a non-empty map of field errors; no
\* exception leaves them.
C21_ValidationNeverThrows ==
    \A p \in Procs :
        (Done(p) /\ req[p].op \in ValidationOps) =>
            \/ req[p].res = "SUCCESS"
            \/ req[p].res = "VALIDATION" /\ req[p].errs # {}


\* --------------------------------------------------------- sanitizeText
MaxInputLen == 4

\* the characters \s matches, of which the inputs use the space and the tab
IsWhitespace(c) == c \in {" ", "\t"}

InputTexts == UNION {[1..n -> {" ", "\t", "a", "<", ">"}] : n \in 0..MaxInputLen}

\* String.prototype.trim
RECURSIVE TrimWhitespaceStart(_)
TrimWhitespaceStart(s) ==
    IF s # <<>> /\ IsWhitespace(Head(s)) THEN TrimWhitespaceStart(Tail(s)) ELSE s

RECURSIVE TrimWhitespaceEnd(_)
TrimWhitespaceEnd(s) ==
    IF s # <<>> /\ IsWhitespace(s[Len(s)])
    THEN TrimWhitespaceEnd(SubSeq(s, 1, Len(s) - 1))
    ELSE s

TrimWhitespace(s) == TrimWhitespaceEnd(TrimWhitespaceStart(s))

\* .replace(/\s+/g, ' ')
RECURSIVE CollapseWhitespace(_)
CollapseWhitespace(s) ==
    IF s = <<>> THEN <<>>
    ELSE IF IsWhitespace(Head(s))
         THEN <<" ">> \o CollapseWhitespace(TrimWhitespaceStart(s))
         ELSE <<Head(s)>> \o CollapseWhitespace(Tail(s))

\* .replace(/[<>]/g, '')
StripAngleBrackets(s) == SelectSeq(s, LAMBDA c : c \notin {"<", ">"})

sanitizeText(input) == StripAngleBrackets(CollapseWhitespace(TrimWhitespace(input)))

InitSanitize ==
    /\ InitClean
    /\ votes = {}
    /\ started = 0
    /\ req = [p \in Procs |-> Idle]

\* one call of sanitizeText: the input is kept as the request's title, the
\* output as its data
Sanitize ==
    /\ req["p1"].pc = "idle"
    /\ started' = started + 1
    /\ \E input \in InputTexts :
        Step("p1", [Respond(req["p1"], "SUCCESS") EXCEPT
                        !.op = "sanitizeText",
                        !.payload.title = input,
                        !.data.title = sanitizeText(input)])
    /\ UNCHANGED <<polls, poll_options, votes, nextId>>

SpecSanitize == InitSanitize /\ [][Sanitize]_vars

\* ------------------------------------------------------------------- C22
Sanitized(r) == r.pc = "done" /\ r.op = "sanitizeText"

\* C22: the output of sanitizeText has no '<' and no '>', no whitespace other
\* than single spaces between other characters, and none at either end.
C22_Sanitized ==
    Sanitized(req["p1"]) =>
        LET out == req["p1"].data.title
        IN  /\ \A i \in DOMAIN out : out[i] \notin {"<", ">"}
            /\ \A i \in DOMAIN out : IsWhitespace(out[i]) => out[i] = " "
            /\ \A i \in 1..(Len(out) - 1) : ~(IsWhitespace(out[i]) /\ IsWhitespace(out[i + 1]))
            /\ out # <<>> => ~IsWhitespace(out[1]) /\ ~IsWhitespace(out[Len(out)])


\* ------------------------------------------------------------------- C23
Envelopes ==
    {"SUCCESS", "VALIDATION", "AUTH_REQUIRED", "PERMISSION", "NOT_FOUND", "DATABASE", "UNKNOWN"}

\* C23: a mutating request that has finished has answered with a response
\* envelope, success or one typed error; an exception raised on the way has
\* become the UNKNOWN envelope.
C23_OneEnvelope ==
    \A p \in Procs :
        (Done(p) /\ req[p].op \in MutatingOps) => req[p].res \in Envelopes


\* ------------------------------------------------------------------- C24
\* C24: every stored vote names an option that is stored and is an option of
\* the poll the vote names.
C24_VoteOptionOfPoll ==
    \A v \in votes :
        \E o \in poll_options : o.id = v.option_id /\ o.poll_id = v.poll_id


\* ------------------------------------------------------------------- C25
\* poll 1 with a vote of u2 for its first option, cast before any request here
EarlierVote == VoteRow(1, 1, 1, "u2")

InitVoted ==
    /\ polls = (1 :> PollRow(TitleGood, None, "u1"))
    /\ poll_options = {OptionRow(1, 1, <<"a">>), OptionRow(2, 1, <<"b">>)}
    /\ votes = {EarlierVote}
    /\ nextId = [poll |-> 2, option |-> 3, vote |-> 2]
    /\ req = [p \in Procs |-> Idle]
    /\ started = 0

SpecVoted == InitVoted /\ [][Next]_vars

\* C25: once an update of poll 1 has returned success, the vote the poll had
\* before the update is no longer stored.
C25_UpdateRemovesVotes ==
    \A p \in Procs :
        (Done(p) /\ req[p].op \in UpdateOps /\ req[p].poll = 1 /\ req[p].res = "SUCCESS")
            => EarlierVote \notin votes


\* ------------------------------------------------------------------- C26
\* Only cleanup requests (POST /api/polls/[id]/cleanup) arrive, for a poll that
\* holds the same text twice.
InitCleanupRace ==
    /\ InitDup
    /\ votes = {}
    /\ req = [p \in Procs |-> Idle]
    /\ started = 0

NextCleanupRace ==
    \E p \in Procs :
        \/ Reply(p)
        \/ RouteCleanup(p)
        \/ RouteCleanup_getPollById(p)
        \/ RouteCleanup_requirePollOwnership(p)
        \/ RouteCleanup_getPollOptions(p)
        \/ RouteCleanup_deleteDuplicates(p)

SpecCleanupRace == InitCleanupRace /\ [][NextCleanupRace]_vars

\* C26: whatever cleanup requests have run, and however interleaved, poll 1
\* keeps an option for the text its two options shared.
C26_TextSurvives ==
    \E o \in RowsOfPoll(poll_options, 1) : NormalizedText(o.text) = <<"a">>


get_poll_results(ps, rows, vs, pid, uid) ==
    LET options == RowsOfPoll(rows, pid)
        user_votes == {v \in vs : v.poll_id = pid /\ v.user_id = uid /\ uid # NoUser}
        total == Cardinality({v \in vs : v.poll_id = pid
                                         /\ v.option_id \in {o.id : o \in options}})
    IN  IF ~PollExists(ps, pid) \/ options = {} THEN [kind |-> "no_rows", total_votes |-> 0]
        ELSE IF Cardinality(user_votes) > 1 THEN [kind |-> "error", total_votes |-> 0]
        ELSE [kind |-> "row", total_votes |-> total]

\* GET /api/polls/[id]: any caller, signed in or not
GetPoll(p) ==
    \E user \in Users \cup {NoUser}, pid \in PollIds :
        Start(p, Goto(NewRequest("GET_poll", user, pid, 0, NoPayload), "getPollWithResults"))

\* PollDatabase.getPollWithResults hands back the function's row or null; a
\* failed call gives null or throws, and the handler has no wrapper around it.
GetPoll_getPollWithResults(p) ==
    /\ At(p, "GET_poll", "getPollWithResults")
    /\ \E ok \in BOOLEAN, throws \in BOOLEAN :
        LET result == get_poll_results(polls, poll_options, votes, req[p].poll, req[p].user)
            r == Called(req[p], "get_poll_results", ok)
        IN  Step(p, IF ok /\ result.kind = "row"
                    THEN [Respond(r, "SUCCESS") EXCEPT !.count = result.total_votes]
                    ELSE IF (~ok \/ result.kind = "error") /\ throws
                         THEN Respond(r, "EXCEPTION")
                    ELSE Respond(r, "NOT_FOUND"))
    /\ UNCHANGED <<polls, poll_options, votes, nextId, started>>

\* Updates through the route and votes change what a later GET of the poll reads.
NextResults ==
    \E p \in Procs :
        \/ Reply(p)
        \/ GetPoll(p)
        \/ GetPoll_getPollWithResults(p)
        \/ RouteUpdate(p)
        \/ RouteUpdate_getPollById(p)
        \/ RouteUpdate_requirePollOwnership(p)
        \/ RouteUpdate_updatePoll(p)
        \/ RouteUpdate_deletePollOptions(p)
        \/ RouteUpdate_createPollOptions(p)
        \/ RouteVote(p)
        \/ RouteVote_castVote(p)

SpecResults == InitVoted /\ [][NextResults]_vars

\* C28: a GET whose storage call went through, for a poll that is stored,
\* answers with the poll and its tally, not with "not found" or an error.
C28_StoredPollHasResults ==
    \A p \in Procs :
        (/\ Done(p) /\ req[p].op = "GET_poll" /\ AllOk(req[p])
         /\ PollExists(polls, req[p].poll))
            => req[p].res = "SUCCESS"




\* ------------------------------------------------------------------- C29
\* no create or update request is between its first and its last step
NoCreateOrUpdateInFlight ==
    \A p \in Procs : req[p].op \notin (CreateOps \cup UpdateOps)

\* C29: while no create or update request is in flight, every stored poll has
\* between MinOptions and MaxOptions option rows.
C29_OptionCountInRange ==
    NoCreateOrUpdateInFlight =>
        \A pid \in DOMAIN polls :
            /\ Cardinality(RowsOfPoll(poll_options, pid)) >= MinOptions
            /\ Cardinality(RowsOfPoll(poll_options, pid)) <= MaxOptions




\* ------------------------------------------------------------------- C30
\* the request that takes the step
Stepping(p) == req'[p] # req[p]

\* C30: a step never changes the created_by of a poll that is already stored,
\* and a poll row that a step adds carries the authenticated user of the create
\* request that takes the step.
C30_CreatedByIsCreator ==
    [][\A pid \in DOMAIN polls' :
        IF PollExists(polls, pid)
        THEN polls'[pid].created_by = polls[pid].created_by
        ELSE \E p \in Procs :
                /\ Stepping(p)
                /\ req[p].op \in CreateOps
                /\ Authenticated(req[p].user)
                /\ polls'[pid].created_by = req[p].user]_vars

\* u2 has created poll 2 and then updated it: the row still names u2
C30_Witness ==
    \E p \in Procs :
        /\ Done(p) /\ req[p].op \in UpdateOps /\ req[p].res = "SUCCESS"
        /\ req[p].user = "u2" /\ req[p].poll = 2
        /\ PollExists(polls, 2) /\ polls[2].created_by = "u2"

====
